---- MODULE Spec2Model ----
(***************************************************************************)
(* Lifecycle of uvicorn's Server (src/uvicorn/server.py): run/serve,       *)
(* startup (lifespan handshake, transport binding, task scheduling), the   *)
(* main loop's gather over the supervised tasks, the tick loop, and the    *)
(* shutdown sequence.  The serve coroutine is followed by `pc`; the code   *)
(* between two awaits is one atomic step of the cooperative scheduler.     *)
(* The watcher (uvicorn._impl), the lifespan object and the protocol layer *)
(* are outside src/ and are modelled at their interface.                   *)
(***************************************************************************)
EXTENDS Integers, Sequences, FiniteSets, TLC

\* ---------------------------------------------------------------- bounds
MaxRequests == 1      \* cap on server_state.total_requests and on the limit
MaxConns == 1         \* connection handles the protocol layer may register
MaxBgTasks == 1       \* background-task handles
MaxSockets == 1       \* length of an inherited socket list
MaxTicks == 1         \* ticks the tick loop is followed for in the lifecycle
MaxLongTicks == 21    \* ticks the tick loop is followed for on its own
MaxSignals == 2       \* OS signals delivered
StartTime == 15       \* time.time() at tick 0, in tick intervals
TimeoutNotify == 12   \* config.timeout_notify, in tick intervals

\* ------------------------------------------------------ program constants
TicksPerRefresh == 10 \* on_tick: counter % 10 == 0
ExitFailure == 1      \* sys.exit(1)

None == "None"        \* an absent object
Nil == 0 - 1          \* an absent integer (None where the code holds an int)
Conns == 1..MaxConns
BgTasks == 1..MaxBgTasks
Limits == {Nil} \cup (1..MaxRequests)
EncodedHeaders == << <<"server", "uvicorn">>, <<"x-extra", "1">> >>

VARIABLES
    pc,                 \* position of the serve coroutine
    visited,            \* history: the entry point taken, the positions serve has been
                        \* at, and whether a signal came before the main loop's await
    config,             \* [limit_max_requests, callback_notify]
    shutdown_event,     \* None, or the multiprocess event: "clear" / "set"
    shutdown_trigger,   \* None, "mp" (poll the event) or "signal" (signal_event.wait)
    signal_event,       \* None before install_signal_handlers, else "clear" / "set"
    servers,            \* [assigned, list]: the attribute, unassigned until startup binds
    tasks,              \* the supervised tasks: [watcher, tick, accept]
    started, should_exit, force_exit, last_notified,
    total_requests, connections, bg_tasks, default_headers,   \* ServerState
    counter,            \* loop_tick's local counter
    lifespan,           \* [startups, shutdowns, should_exit] of the lifespan object
    asked,              \* connections whose shutdown() has been called
    steps,              \* history: the steps Server.shutdown has begun, in order
    polls,              \* 0, or while a drain wait polls: 1 or 2 by the parity of its sleeps
    signals,            \* history: OS signals delivered to the handler
    notified,           \* history: calls of config.callback_notify
    error_logs,         \* history: logger.error records
    exit_status         \* Nil, or the status sys.exit was called with

vars == << pc, visited, config, shutdown_event, shutdown_trigger, signal_event, servers,
           tasks, started, should_exit, force_exit, last_notified,
           total_requests, connections, bg_tasks, default_headers, counter,
           lifespan, asked, steps, polls, signals, notified, error_logs,
           exit_status >>

serverVars == << servers, tasks, started, should_exit >>
stateVars == << total_requests, connections, bg_tasks, asked >>
tickVars == << default_headers, counter, last_notified, notified >>
histVars == << steps, polls, error_logs, exit_status >>

NoTasks == [watcher |-> None, tick |-> None, accept |-> << >>]

Configs == [limit_max_requests : Limits, callback_notify : BOOLEAN]

\* ServerState.__init__ and Server.__init__, for a configuration of configs.
Constructed(configs) ==
    /\ pc = "init"
    /\ visited = {"init"}
    /\ config \in configs
    /\ shutdown_event \in {None, "clear"}
    /\ shutdown_trigger = None
    /\ signal_event = None
    /\ servers = [assigned |-> FALSE, list |-> << >>]
    /\ tasks = NoTasks
    /\ started = FALSE
    /\ should_exit = FALSE
    /\ force_exit = FALSE
    /\ last_notified = 0
    /\ total_requests = 0
    /\ connections = {}
    /\ bg_tasks = {}
    /\ default_headers = << >>
    /\ counter = 0
    /\ lifespan = [startups |-> 0, shutdowns |-> 0, should_exit |-> FALSE]
    /\ asked = {}
    /\ steps = << >>
    /\ polls = 0
    /\ signals = 0
    /\ notified = 0
    /\ error_logs = 0
    /\ exit_status = Nil

\* The lifecycle is followed for the configurations without a notification
\* callback: the callback acts on nothing but last_notified.
Init == Constructed({c \in Configs : ~c.callback_notify})

Terminal == pc \in {"stopped", "crashed", "exited"}

\* serve reaches position p.
Move(p) == pc' = p /\ visited' = visited \cup {p}

\* ------------------------------------------------------------ run / serve

\* install_signal_handlers: the trigger after the call.  Off the main thread
\* nothing is installed; a trigger already set (by run) is kept.
InstallTrigger(main_thread, trigger) ==
    IF ~main_thread THEN trigger
    ELSE IF trigger = None THEN "signal" ELSE trigger

\* install_signal_handlers: the asyncio.Event the handlers set, when created.
InstallEvent(main_thread, trigger) ==
    IF main_thread /\ trigger = None THEN "clear" ELSE None

\* serve up to its first suspension, the await of lifespan.startup().
ServeEntry(via, main_thread, trigger) ==
    /\ pc = "init"
    /\ shutdown_trigger' = InstallTrigger(main_thread, trigger)
    /\ signal_event' = InstallEvent(main_thread, trigger)
    /\ lifespan' = [lifespan EXCEPT !.startups = @ + 1]
    /\ pc' = "lifespan_startup"
    /\ visited' = visited \cup {via, "lifespan_startup"}
    /\ UNCHANGED << config, shutdown_event, serverVars, force_exit, stateVars,
                    tickVars, histVars, signals >>

\* Mutant of RunTrigger: run() without its multiprocess branch.
RunTriggerUnset == shutdown_trigger

\* run: the trigger run() leaves before it calls serve.
RunTrigger == IF shutdown_event # None THEN "mp" ELSE shutdown_trigger

Run(main_thread) == ServeEntry("run", main_thread, RunTrigger)

\* serve awaited directly, without run().
Serve(main_thread) == ServeEntry("serve", main_thread, shutdown_trigger)

\* ---------------------------------------------------------------- startup

\* startup, from the return of lifespan.startup() to the next await.  With
\* should_exit the method returns; main_loop then gathers an empty task list.
LifespanStartup(exit) ==
    /\ pc = "lifespan_startup"
    /\ lifespan' = [lifespan EXCEPT !.should_exit = exit]
    /\ should_exit' = (should_exit \/ exit)
    /\ Move(IF exit THEN "main_loop" ELSE "bind")
    /\ UNCHANGED << config, shutdown_event, shutdown_trigger, signal_event,
                    servers, tasks, started, force_exit, stateVars, tickVars,
                    histVars, signals >>

\* The binding strategy, by the precedence of startup's if/elif chain.
Strategy(sockets, fd, uds) ==
    IF sockets # Nil THEN "sockets"
    ELSE IF fd # None THEN "fd"
    ELSE IF uds # None THEN "uds"
    ELSE "host_port"

\* Number of transports a strategy binds.
NumServers(sockets, fd, uds) ==
    IF Strategy(sockets, fd, uds) = "sockets" THEN sockets ELSE 1

\* Mutant of Scheduled: startup without the line that adds the watcher.
ScheduledNoWatcher(n) ==
    [watcher |-> None, tick |-> "running",
     accept |-> [i \in 1..n |-> "scheduled"]]

\* The supervised tasks startup appends: watcher, tick, one accept loop each.
Scheduled(n) ==
    [watcher |-> "waiting", tick |-> "running",
     accept |-> [i \in 1..n |-> "scheduled"]]

\* Mutant of BindOk: startup without its last line, started is never set.
BindOkNotStarted(sockets, fd, uds) ==
    /\ pc = "bind"
    /\ servers' = [assigned |-> TRUE,
                   list |-> [i \in 1..NumServers(sockets, fd, uds) |-> "listening"]]
    /\ tasks' = Scheduled(NumServers(sockets, fd, uds))
    /\ Move("main_loop")
    /\ UNCHANGED << config, shutdown_event, shutdown_trigger, signal_event,
                    started, should_exit, force_exit, stateVars, tickVars,
                    lifespan, histVars, signals >>

\* startup, binding succeeded: register the transports, schedule the tasks,
\* set started; serve goes on to main_loop's await of the gather.
BindOk(sockets, fd, uds) ==
    /\ pc = "bind"
    /\ servers' = [assigned |-> TRUE,
                   list |-> [i \in 1..NumServers(sockets, fd, uds) |-> "listening"]]
    /\ tasks' = Scheduled(NumServers(sockets, fd, uds))
    /\ started' = TRUE
    /\ Move("main_loop")
    /\ UNCHANGED << config, shutdown_event, shutdown_trigger, signal_event,
                    should_exit, force_exit, stateVars, tickVars, lifespan,
                    histVars, signals >>

\* Mutant of BindFailHostPort: the except clause without the handshake.
BindFailHostPortNoHandshake ==
    /\ pc = "bind"
    /\ error_logs' = error_logs + 1
    /\ Move("bind_failed")
    /\ UNCHANGED << config, shutdown_event, shutdown_trigger, signal_event,
                    serverVars, force_exit, stateVars, tickVars, lifespan,
                    steps, polls, exit_status, signals >>

\* startup, host/port bind raised OSError: log it, await lifespan.shutdown().
BindFailHostPort ==
    /\ pc = "bind"
    /\ error_logs' = error_logs + 1
    /\ lifespan' = [lifespan EXCEPT !.shutdowns = @ + 1]
    /\ Move("bind_failed")
    /\ UNCHANGED << config, shutdown_event, shutdown_trigger, signal_event,
                    serverVars, force_exit, stateVars, tickVars, steps, polls,
                    exit_status, signals >>

\* startup, any other strategy raised OSError: nothing catches it.
BindFailOther ==
    /\ pc = "bind"
    /\ Move("crashed")
    /\ UNCHANGED << config, shutdown_event, shutdown_trigger, signal_event,
                    serverVars, force_exit, stateVars, tickVars, lifespan,
                    histVars, signals >>

BindFail(sockets, fd, uds) ==
    IF Strategy(sockets, fd, uds) = "host_port"
    THEN BindFailHostPort
    ELSE NumServers(sockets, fd, uds) > 0 /\ BindFailOther

\* Mutant of BindFailExit: the exit reports success.
BindFailExitClean ==
    /\ pc = "bind_failed"
    /\ exit_status' = 0
    /\ Move("exited")
    /\ UNCHANGED << config, shutdown_event, shutdown_trigger, signal_event,
                    serverVars, force_exit, stateVars, tickVars, lifespan,
                    steps, polls, error_logs, signals >>

\* startup, after lifespan.shutdown() returned: sys.exit(1).
BindFailExit ==
    /\ pc = "bind_failed"
    /\ exit_status' = ExitFailure
    /\ Move("exited")
    /\ UNCHANGED << config, shutdown_event, shutdown_trigger, signal_event,
                    serverVars, force_exit, stateVars, tickVars, lifespan,
                    steps, polls, error_logs, signals >>

\* ------------------------------------------------------- supervised tasks

\* raise_shutdown(signal_event.wait): the event is set, Shutdown is raised.
WatcherSignal ==
    /\ ~Terminal
    /\ tasks.watcher = "waiting"
    /\ shutdown_trigger = "signal"
    /\ signal_event = "set"
    /\ tasks' = [tasks EXCEPT !.watcher = "raised"]
    /\ UNCHANGED << pc, visited, config, shutdown_event, shutdown_trigger, signal_event,
                    servers, started, should_exit, force_exit, stateVars,
                    tickVars, lifespan, histVars, signals >>

\* raise_shutdown(check_multiprocess_shutdown_event): a poll of the external
\* event finds it set, Shutdown is raised.
WatcherPoll ==
    /\ ~Terminal
    /\ tasks.watcher = "waiting"
    /\ shutdown_trigger = "mp"
    /\ shutdown_event = "set"
    /\ tasks' = [tasks EXCEPT !.watcher = "raised"]
    /\ UNCHANGED << pc, visited, config, shutdown_event, shutdown_trigger, signal_event,
                    servers, started, should_exit, force_exit, stateVars,
                    tickVars, lifespan, histVars, signals >>

\* raise_shutdown(None): no trigger was ever set (serve off the main thread
\* without run's trigger).  The task fails on the call or never fires.
WatcherNoTrigger(outcome) ==
    /\ ~Terminal
    /\ tasks.watcher = "waiting"
    /\ shutdown_trigger = None
    /\ tasks' = [tasks EXCEPT !.watcher = outcome]
    /\ UNCHANGED << pc, visited, config, shutdown_event, shutdown_trigger, signal_event,
                    servers, started, should_exit, force_exit, stateVars,
                    tickVars, lifespan, histVars, signals >>

\* The accept loops gather wrapped begin to run: each server.serve_forever()
\* reaches its await (they are scheduled back to back by the one gather call).
ServeForever ==
    /\ ~Terminal
    /\ \E i \in DOMAIN tasks.accept : tasks.accept[i] = "scheduled"
    /\ tasks' = [tasks EXCEPT
                   !.accept = [i \in DOMAIN tasks.accept |-> "serving"]]
    /\ UNCHANGED << pc, visited, config, shutdown_event, shutdown_trigger, signal_event,
                    servers, started, should_exit, force_exit, stateVars,
                    tickVars, lifespan, histVars, signals >>

\* ------------------------------------------------------------------- tick

TicksPerSecond == 10  \* loop_tick sleeps 0.1 s between ticks

\* time.time() at the tick numbered c, in tick intervals.
CurrentTime(c) == StartTime + c

\* formatdate(t, usegmt=True): the date to the second.
FormatDate(t) == t \div TicksPerSecond

\* Mutant of TickHeaders: the refresh without its once-per-second guard.
TickHeadersEachTick(c) ==
    << <<"date", FormatDate(CurrentTime(c))>> >> \o EncodedHeaders

\* on_tick: the default headers after the tick numbered c.
TickHeaders(c) ==
    IF c % TicksPerRefresh = 0
    THEN << <<"date", FormatDate(CurrentTime(c))>> >> \o EncodedHeaders
    ELSE default_headers

\* Mutant of TickNotifies: the callback checked outside the refresh branch.
TickNotifiesAnyTick(c) ==
    /\ config.callback_notify
    /\ CurrentTime(c) - last_notified > TimeoutNotify

\* on_tick: whether the tick numbered c calls config.callback_notify.
TickNotifies(c) ==
    /\ c % TicksPerRefresh = 0
    /\ config.callback_notify
    /\ CurrentTime(c) - last_notified > TimeoutNotify

\* on_tick: the exit decision it returns.
TickShouldExit ==
    IF should_exit THEN TRUE
    ELSE IF config.limit_max_requests # Nil
         THEN total_requests >= config.limit_max_requests
         ELSE FALSE

\* loop_tick: one on_tick(counter); the loop ends when it returns True,
\* otherwise the counter is incremented and the task sleeps.  The loop is
\* followed up to the tick numbered bound.
LoopTickUpTo(bound) ==
    /\ ~Terminal
    /\ tasks.tick = "running"
    /\ counter <= bound
    /\ default_headers' = TickHeaders(counter)
    /\ last_notified' = IF TickNotifies(counter) THEN CurrentTime(counter)
                        ELSE last_notified
    /\ notified' = IF TickNotifies(counter) THEN notified + 1 ELSE notified
    /\ IF TickShouldExit
       THEN tasks' = [tasks EXCEPT !.tick = "done"] /\ counter' = counter
       ELSE tasks' = tasks /\ counter' = counter + 1
    /\ UNCHANGED << pc, visited, config, shutdown_event, shutdown_trigger, signal_event,
                    servers, started, should_exit, force_exit, stateVars,
                    lifespan, histVars, signals >>

LoopTick == LoopTickUpTo(MaxTicks)

LoopTickLong == LoopTickUpTo(MaxLongTicks)

\* -------------------------------------------------------------- main loop

\* asyncio.gather(*self.tasks): how the await ends.  An empty list is done at
\* once; otherwise the first exception of a member is raised, and the gather
\* returns only when every member has returned (the watcher never returns).
GatherResult(t) ==
    IF t = NoTasks THEN "returned"
    ELSE IF t.watcher = "raised" THEN "Shutdown"
    ELSE IF t.watcher = "failed" THEN "TypeError"
    ELSE "pending"

\* Mutant of Caught: the except clause without Shutdown.
CaughtInterruptOnly(exc) == exc \in {"KeyboardInterrupt"}

\* main_loop's except clause.
Caught(exc) == exc \in {"Shutdown", "KeyboardInterrupt"}

\* --------------------------------------------------------------- shutdown

Sequencer == {"wait_closed", "grace_sleep", "wait_connections",
              "wait_tasks", "lifespan_shutdown"}

\* Mutant of After261: the handshake whatever force_exit is.
After261Always(s) ==
    [pc |-> "lifespan_shutdown", steps |-> Append(s, "lifespan_shutdown"),
     polls |-> 0, shutdowns |-> lifespan.shutdowns + 1]

\* shutdown from line 261: the lifespan handshake unless force_exit, then
\* serve logs and returns.
After261(s) ==
    IF ~force_exit
    THEN [pc |-> "lifespan_shutdown", steps |-> Append(s, "lifespan_shutdown"),
          polls |-> 0, shutdowns |-> lifespan.shutdowns + 1]
    ELSE [pc |-> "stopped", steps |-> s, polls |-> 0,
          shutdowns |-> lifespan.shutdowns]

\* Mutant of After254: no wait on the background tasks.
After254NoWait(s) == After261(s)

\* shutdown from line 254: begin the wait on the background tasks, or go on.
After254(s) ==
    IF bg_tasks # {} /\ ~force_exit
    THEN [pc |-> "wait_tasks", steps |-> Append(s, "wait_tasks"),
          polls |-> 1, shutdowns |-> lifespan.shutdowns]
    ELSE After261(s)

\* Mutant of After247: no wait on the connections.
After247NoWait(s) == After254(s)

\* shutdown from line 247: begin the wait on the connections, or go on.
After247(s) ==
    IF connections # {} /\ ~force_exit
    THEN [pc |-> "wait_connections", steps |-> Append(s, "wait_connections"),
          polls |-> 1, shutdowns |-> lifespan.shutdowns]
    ELSE After254(s)

\* serve moves to where r says.
Goto(r) ==
    /\ Move(r.pc)
    /\ steps' = r.steps
    /\ polls' = r.polls
    /\ lifespan' = [lifespan EXCEPT !.shutdowns = r.shutdowns]

\* Mutant of ShutdownClose: shutdown without server.close(), the transports
\* keep listening.
ShutdownNoClose ==
    /\ IF servers.assigned
       THEN /\ servers' = servers
            /\ tasks' = tasks
            /\ steps' = Append(steps, "close")
            /\ pc' = "wait_closed"
            /\ visited' = visited \cup {"shutdown", "wait_closed"}
       ELSE /\ pc' = "crashed"
            /\ visited' = visited \cup {"shutdown", "crashed"}
            /\ UNCHANGED << servers, tasks, steps >>
    /\ UNCHANGED << started, should_exit, polls, error_logs, exit_status >>

\* shutdown, lines 231-239: close every transport and await wait_closed.
\* self.servers is read first: unassigned, the read raises AttributeError.
ShutdownClose ==
    /\ IF servers.assigned
       THEN /\ servers' = [servers EXCEPT
                             !.list = [i \in DOMAIN servers.list |-> "closed"]]
            /\ tasks' = [tasks EXCEPT
                           !.accept = [i \in DOMAIN tasks.accept |-> "cancelled"]]
            /\ steps' = Append(steps, "close")
            /\ pc' = "wait_closed"
            /\ visited' = visited \cup {"shutdown", "wait_closed"}
       ELSE /\ pc' = "crashed"
            /\ visited' = visited \cup {"shutdown", "crashed"}
            /\ UNCHANGED << servers, tasks, steps >>
    /\ UNCHANGED << started, should_exit, polls, error_logs, exit_status >>

\* main_loop: the await of the gather ends.  A Shutdown (or a plain return)
\* takes serve into shutdown, which runs to its first await; any other
\* exception leaves serve.
MainLoop ==
    /\ pc = "main_loop"
    /\ GatherResult(tasks) # "pending"
    /\ IF GatherResult(tasks) = "returned" \/ Caught(GatherResult(tasks))
       THEN ShutdownClose
       ELSE Move("crashed") /\ UNCHANGED << serverVars, histVars >>
    /\ UNCHANGED << config, shutdown_event, shutdown_trigger, signal_event,
                    force_exit, stateVars, tickVars, lifespan, signals >>

\* shutdown, lines 241-244: the closes are complete; call shutdown() on every
\* tracked connection and sleep.
WaitClosed ==
    /\ pc = "wait_closed"
    /\ asked' = asked \cup connections
    /\ steps' = steps \o << "wait_closed", "request_shutdown" >>
    /\ Move("grace_sleep")
    /\ UNCHANGED << config, shutdown_event, shutdown_trigger, signal_event,
                    serverVars, force_exit, total_requests, connections,
                    bg_tasks, tickVars, lifespan, polls, error_logs,
                    exit_status, signals >>

\* shutdown, line 244 returns: the checks of lines 247, 254 and 261.
GraceSleep ==
    /\ pc = "grace_sleep"
    /\ Goto(After247(steps))
    /\ UNCHANGED << config, shutdown_event, shutdown_trigger, signal_event,
                    serverVars, force_exit, stateVars, tickVars, error_logs,
                    exit_status, signals >>

\* shutdown, line 251 returns: another iteration of the wait, or go on.
PollConnections ==
    /\ pc = "wait_connections"
    /\ IF connections # {} /\ ~force_exit
       THEN Goto([pc |-> pc, steps |-> steps, polls |-> 3 - polls,
                  shutdowns |-> lifespan.shutdowns])
       ELSE Goto(After254(steps))
    /\ UNCHANGED << config, shutdown_event, shutdown_trigger, signal_event,
                    serverVars, force_exit, stateVars, tickVars, error_logs,
                    exit_status, signals >>

\* shutdown, line 258 returns: another iteration of the wait, or go on.
PollTasks ==
    /\ pc = "wait_tasks"
    /\ IF bg_tasks # {} /\ ~force_exit
       THEN Goto([pc |-> pc, steps |-> steps, polls |-> 3 - polls,
                  shutdowns |-> lifespan.shutdowns])
       ELSE Goto(After261(steps))
    /\ UNCHANGED << config, shutdown_event, shutdown_trigger, signal_event,
                    serverVars, force_exit, stateVars, tickVars, error_logs,
                    exit_status, signals >>

\* Mutant of LifespanShutdown: serve starts over instead of returning.
LifespanShutdownRestarts ==
    /\ pc = "lifespan_shutdown"
    /\ Move("bind")
    /\ UNCHANGED << config, shutdown_event, shutdown_trigger, signal_event,
                    serverVars, force_exit, stateVars, tickVars, lifespan,
                    histVars, signals >>

\* shutdown, line 262 returns: serve logs "Finished" and returns.
LifespanShutdown ==
    /\ pc = "lifespan_shutdown"
    /\ Move("stopped")
    /\ UNCHANGED << config, shutdown_event, shutdown_trigger, signal_event,
                    serverVars, force_exit, stateVars, tickVars, lifespan,
                    histVars, signals >>

\* ------------------------------------------------------------ environment

\* _signal_handler: an interrupt or termination signal is delivered.
Signal ==
    /\ ~Terminal
    /\ signal_event # None
    /\ signals < MaxSignals
    /\ signal_event' = "set"
    /\ signals' = signals + 1
    /\ visited' = IF pc \in {"lifespan_startup", "bind"}
                  THEN visited \cup {"early_signal"} ELSE visited
    /\ UNCHANGED << pc, config, shutdown_event, shutdown_trigger, serverVars,
                    force_exit, stateVars, tickVars, lifespan, histVars >>

\* The owner of the multiprocess event sets it.
SetShutdownEvent ==
    /\ ~Terminal
    /\ shutdown_event = "clear"
    /\ shutdown_event' = "set"
    /\ UNCHANGED << pc, visited, config, shutdown_trigger, signal_event, serverVars,
                    force_exit, stateVars, tickVars, lifespan, histVars,
                    signals >>

\* The embedding program assigns server.force_exit = True.
SetForceExit ==
    /\ ~Terminal
    /\ ~force_exit
    /\ force_exit' = TRUE
    /\ UNCHANGED << pc, visited, config, shutdown_event, shutdown_trigger, signal_event,
                    serverVars, stateVars, tickVars, lifespan, histVars,
                    signals >>

Listening == \E i \in DOMAIN servers.list : servers.list[i] = "listening"

\* The protocol layer registers an accepted connection.
Connect(c) ==
    /\ ~Terminal
    /\ Listening
    /\ c \notin connections
    /\ connections' = connections \cup {c}
    /\ UNCHANGED << pc, visited, config, shutdown_event, shutdown_trigger, signal_event,
                    serverVars, force_exit, total_requests, bg_tasks, asked,
                    tickVars, lifespan, histVars, signals >>

\* The protocol layer counts a request on a connection.
Request ==
    /\ ~Terminal
    /\ connections # {}
    /\ total_requests < MaxRequests
    /\ total_requests' = total_requests + 1
    /\ UNCHANGED << pc, visited, config, shutdown_event, shutdown_trigger, signal_event,
                    serverVars, force_exit, connections, bg_tasks, asked,
                    tickVars, lifespan, histVars, signals >>

\* A connection closes and unregisters itself.
Disconnect(c) ==
    /\ ~Terminal
    /\ c \in connections
    /\ connections' = connections \ {c}
    /\ asked' = asked \ {c}
    /\ UNCHANGED << pc, visited, config, shutdown_event, shutdown_trigger, signal_event,
                    serverVars, force_exit, total_requests, bg_tasks,
                    tickVars, lifespan, histVars, signals >>

\* A connection registers a background task.
SpawnTask(t) ==
    /\ ~Terminal
    /\ connections # {}
    /\ t \notin bg_tasks
    /\ bg_tasks' = bg_tasks \cup {t}
    /\ UNCHANGED << pc, visited, config, shutdown_event, shutdown_trigger, signal_event,
                    serverVars, force_exit, total_requests, connections, asked,
                    tickVars, lifespan, histVars, signals >>

\* A background task completes and unregisters itself.
FinishTask(t) ==
    /\ ~Terminal
    /\ t \in bg_tasks
    /\ bg_tasks' = bg_tasks \ {t}
    /\ UNCHANGED << pc, visited, config, shutdown_event, shutdown_trigger, signal_event,
                    serverVars, force_exit, total_requests, connections, asked,
                    tickVars, lifespan, histVars, signals >>

\* ---------------------------------------------------------- specification

SocketLists == {Nil} \cup (0..MaxSockets)
Optional == {None, "given"}

Next ==
    \/ \E m \in BOOLEAN : Run(m)
    \/ \E m \in BOOLEAN : Serve(m)
    \/ \E e \in BOOLEAN : LifespanStartup(e)
    \/ \E k \in SocketLists, fd \in Optional, uds \in Optional : BindOk(k, fd, uds)
    \/ \E k \in SocketLists, fd \in Optional, uds \in Optional : BindFail(k, fd, uds)
    \/ BindFailExit
    \/ WatcherSignal
    \/ WatcherPoll
    \/ \E o \in {"failed", "hung"} : WatcherNoTrigger(o)
    \/ ServeForever
    \/ LoopTick
    \/ MainLoop
    \/ WaitClosed
    \/ GraceSleep
    \/ PollConnections
    \/ PollTasks
    \/ LifespanShutdown
    \/ Signal
    \/ SetShutdownEvent
    \/ SetForceExit
    \/ \E c \in Conns : Connect(c)
    \/ Request
    \/ \E c \in Conns : Disconnect(c)
    \/ \E t \in BgTasks : SpawnTask(t)
    \/ \E t \in BgTasks : FinishTask(t)

Spec == Init /\ [][Next]_vars

\* The event loop runs every task that is ready: the steps of serve, of the
\* watcher and of the tick loop are taken when they stay enabled.  Nothing
\* obliges the environment (signals, the event's owner, clients, the
\* application) to act.
Fairness ==
    /\ WF_vars(MainLoop)
    /\ WF_vars(WatcherSignal)
    /\ WF_vars(WatcherPoll)
    /\ WF_vars(LoopTick)
    /\ WF_vars(WaitClosed)
    /\ WF_vars(GraceSleep)
    /\ WF_vars(PollConnections)
    /\ WF_vars(PollTasks)
    /\ WF_vars(LifespanShutdown)
    /\ WF_vars(BindFailExit)

FairSpec == Spec /\ Fairness

\* The tick loop on its own: any configuration, the server started from the
\* main thread on a host/port pair, requests arriving, and the tick loop
\* followed over several refresh periods.
TickInit == Constructed(Configs)

TickNext ==
    \/ Serve(TRUE)
    \/ LifespanStartup(FALSE)
    \/ BindOk(Nil, None, None)
    \/ ServeForever
    \/ LoopTickLong
    \/ \E c \in Conns : Connect(c)
    \/ Request

TickSpec == TickInit /\ [][TickNext]_vars

\* ----------------------------------------------------------------- states

\* The lifecycle states of the specification's section 4.5.
Idle == pc = "init"
Starting == pc \in {"lifespan_startup", "bind", "bind_failed"}
               \/ (pc = "main_loop" /\ ~started)
Running == pc = "main_loop" /\ started
Draining == pc \in Sequencer
Stopped == pc = "stopped"

\* ----------------------------------------------------------------- claims

Range(s) == {s[i] : i \in 1..Len(s)}

\* C1: once total_requests has reached limit_max_requests while the server is
\* Running, the tick task signals exit and the main loop ends, with no signal
\* delivered and the multiprocess event not set.  Stated at the moment the
\* tick task has returned: the wait of the main loop is then over.
C1_RequestLimitEndsMainLoop ==
    ( /\ Running
      /\ tasks.tick = "done"
      /\ signals = 0
      /\ shutdown_event # "set" )
    => GatherResult(tasks) # "pending"

\* C2: with the signal handlers installed, a delivered signal sets the signal
\* event; the Shutdown the watcher then raises never leaves serve as an error;
\* and a Running server whose event is set enters the shutdown sequence.
C2_SignalEndsMainLoop ==
    /\ [][signals' > signals => signal_event' = "set"]_vars
    /\ []((started /\ shutdown_trigger = "signal") => pc # "crashed")
    /\ (Running /\ shutdown_trigger = "signal" /\ signal_event = "set")
          ~> Draining

\* C2's case: one signal, the watcher raised, serve is in the sequence.
C2_Witness ==
    /\ Draining
    /\ signals = 1
    /\ shutdown_trigger = "signal"
    /\ tasks.watcher = "raised"

\* C3: a second signal, delivered once a first one has moved the server into
\* Draining, sets force_exit.
C3_SecondSignalForcesExit ==
    [][(Draining /\ signals >= 1 /\ signals' = signals + 1) => force_exit']_vars

\* C4: with force_exit true during the shutdown sequence, no further poll
\* iteration begins, the lifespan shutdown handshake is not invoked,
\* force_exit stays true, and the sequence completes: serve returns.
C4_ForceExitCompletes ==
    /\ [][(Draining /\ force_exit) =>
             /\ polls' \in {0, polls}
             /\ lifespan'.shutdowns = lifespan.shutdowns
             /\ force_exit']_vars
    /\ []((force_exit /\ Terminal /\ "shutdown" \in visited) => Stopped)

\* The steps of Server.shutdown in program order.
Order == << "close", "wait_closed", "request_shutdown", "wait_connections",
            "wait_tasks", "lifespan_shutdown" >>

Rank(x) == CHOOSE i \in 1..Len(Order) : Order[i] = x

\* C5: the steps of the shutdown sequence begin in program order, the closing
\* of the transports, its await and the shutdown requests are never skipped,
\* a drain wait is skipped or left only when its set is empty or force_exit
\* is true, and the handshake is skipped only when force_exit is true.
C5_SequencerOrder ==
    /\ [](/\ \A i, j \in 1..Len(steps) :
                i < j => Rank(steps[i]) < Rank(steps[j])
          /\ \A i \in 1..Len(steps) :
                (Rank(steps[i]) <= Rank("request_shutdown")
                   \/ i <= Rank("request_shutdown")) => Rank(steps[i]) = i)
    /\ [][/\ (pc \in {"grace_sleep", "wait_connections"}
                /\ pc' \notin {"grace_sleep", "wait_connections"})
             => (connections = {} \/ force_exit)
          /\ (pc \in {"grace_sleep", "wait_connections", "wait_tasks"}
                /\ pc' \in {"lifespan_shutdown", "stopped"})
             => (bg_tasks = {} \/ force_exit)
          /\ (pc \in Sequencer \ {"lifespan_shutdown"} /\ pc' = "stopped")
             => force_exit
          /\ (pc # "lifespan_shutdown" /\ pc' = "lifespan_shutdown")
             => ~force_exit]_vars

\* C5's case: a shutdown that ran every step, both waits included.
C5_Witness == Stopped /\ steps = Order

\* C6: when the lifespan startup handshake ends with should_exit, no
\* transport is bound, no task scheduled, started stays false, and serve
\* still runs the main loop and the shutdown sequence to completion.
C6_EarlyExitReachesStopped ==
    lifespan.should_exit =>
        /\ ~servers.assigned
        /\ tasks = NoTasks
        /\ ~started
        /\ Terminal => Stopped

BindFailed == pc \in {"bind_failed", "exited"}

\* C7: a failed host/port bind logs exactly one error record and exits with
\* status 1 while started is false; no task was scheduled and the main loop
\* was never entered.  No other path logs an error or calls sys.exit.
C7_BindFailureExits ==
    /\ BindFailed =>
          /\ error_logs = 1
          /\ ~started
          /\ tasks = NoTasks
          /\ "main_loop" \notin visited
    /\ ~BindFailed => (error_logs = 0 /\ exit_status = Nil)
    /\ pc = "exited" <=> exit_status = ExitFailure
    /\ pc = "bind_failed" => exit_status = Nil

\* C7's case: the process has exited on the bind failure.
C7_Witness == pc = "exited" /\ exit_status = ExitFailure /\ error_logs = 1

\* C8 as stated: after a host/port bind failure neither the main loop, nor
\* the shutdown sequence, nor the lifespan shutdown handshake runs.
C8_NoStepAfterBindFailure ==
    BindFailed =>
        /\ "main_loop" \notin visited
        /\ "shutdown" \notin visited
        /\ steps = << >>
        /\ lifespan.shutdowns = 0

\* C8 amended: after a host/port bind failure neither the main loop nor the
\* shutdown sequence runs; the lifespan shutdown handshake is awaited once,
\* and nothing else follows but the exit.
C8_OnlyHandshakeAfterBindFailure ==
    /\ [](BindFailed =>
            /\ "main_loop" \notin visited
            /\ "shutdown" \notin visited
            /\ steps = << >>
            /\ lifespan.shutdowns = 1)
    /\ [][pc = "bind_failed" => pc' \in {"bind_failed", "exited"}]_vars

\* C8's case: exited after the bind failure, the handshake awaited.
C8_Witness ==
    /\ pc = "exited"
    /\ "bind_failed" \in visited
    /\ lifespan.shutdowns = 1
    /\ servers.assigned = FALSE

\* C9: entered through run() with a multiprocess event, the server polls the
\* event and installs no signal handler; once the event is set while the
\* server is Running the main loop ends and the shutdown sequence begins, and
\* serve returns when the connections and background tasks drain.
C9_EventEndsMainLoop ==
    /\ []( ("run" \in visited /\ shutdown_event # None) =>
             (shutdown_trigger = "mp" /\ signal_event = None /\ signals = 0) )
    /\ ("run" \in visited /\ Running /\ shutdown_event = "set") ~> Draining
    /\ <>[](connections = {} /\ bg_tasks = {}) =>
          (("run" \in visited /\ Running /\ shutdown_event = "set") ~> Stopped)

\* C9's case: serve returned after the event was set, no signal delivered.
C9_Witness ==
    /\ Stopped
    /\ "run" \in visited
    /\ shutdown_event = "set"
    /\ tasks.watcher = "raised"
    /\ signals = 0
    /\ ~force_exit

\* C10 as stated: when serve has returned or the process has exited, the
\* lifespan startup and shutdown handshakes have each been awaited once.
C10_EachHandshakeOnce ==
    (Stopped \/ pc = "exited") =>
        (lifespan.startups = 1 /\ lifespan.shutdowns = 1)

\* C10 amended: the startup handshake is awaited exactly once; the shutdown
\* handshake never twice: once on a host/port bind failure and whenever
\* serve returns with force_exit false, and never from a step of the
\* shutdown sequence taken with force_exit true.
C10_HandshakeCounts ==
    /\ [](/\ lifespan.startups = (IF pc = "init" THEN 0 ELSE 1)
          /\ lifespan.shutdowns \in {0, 1}
          /\ pc = "exited" => lifespan.shutdowns = 1
          /\ Stopped => (lifespan.shutdowns = 1 \/ force_exit))
    /\ [][(Draining /\ force_exit) =>
             lifespan'.shutdowns = lifespan.shutdowns]_vars

\* C10's case: a forced exit, serve returned without the shutdown handshake.
C10_Witness ==
    /\ Stopped
    /\ force_exit
    /\ lifespan.startups = 1
    /\ lifespan.shutdowns = 0

\* A step of the tick loop: one call of on_tick returns.
TickStep ==
    /\ tasks.tick = "running"
    /\ (counter' = counter + 1 \/ tasks'.tick = "done")

\* The number of the last tick that has run, Nil before the first.
LastTick == IF tasks.tick = "done" THEN counter ELSE counter - 1

\* C11: default_headers is replaced on the ticks whose counter is a multiple
\* of 10, tick 0 included, and by no other step; a replacement is the date
\* header of that tick's time followed by the encoded extra headers in
\* order; the date of a replacement is never before the date it replaces; and
\* at any time the headers are those of the last tick that was a multiple of
\* 10 (one replacement per 10 ticks).
C11_HeadersRefreshedEveryTenthTick ==
    /\ [][IF TickStep /\ counter % TicksPerRefresh = 0
          THEN /\ Len(default_headers') = 1 + Len(EncodedHeaders)
               /\ default_headers'[1] = <<"date", FormatDate(CurrentTime(counter))>>
               /\ SubSeq(default_headers', 2, Len(default_headers')) = EncodedHeaders
          ELSE default_headers' = default_headers]_vars
    /\ [][(default_headers # << >> /\ default_headers' # default_headers)
             => default_headers'[1][2] >= default_headers[1][2]]_vars
    /\ [](IF LastTick = Nil THEN default_headers = << >>
          ELSE default_headers[1][2] =
                 FormatDate(CurrentTime(TicksPerRefresh * (LastTick \div TicksPerRefresh))))

\* C11's case: the third replacement, on tick 20, after two full periods.
C11_Witness ==
    /\ LastTick >= 2 * TicksPerRefresh
    /\ default_headers[1][2] = FormatDate(CurrentTime(2 * TicksPerRefresh))
    /\ default_headers[1][2] > FormatDate(CurrentTime(0))

\* The position of the server in the lifecycle; 5 when serve was left by an
\* exception or by sys.exit.
StateRank ==
    IF Idle THEN 0
    ELSE IF Starting THEN 1
    ELSE IF Running THEN 2
    ELSE IF Draining THEN 3
    ELSE IF Stopped THEN 4
    ELSE 5

\* C12: the server moves through Idle, Starting, Running, Draining, Stopped
\* forwards only, one state at a time but for Starting -> Draining and for
\* leaving by an error; each state is entered once; and the transports are
\* bound once: once assigned, the list is never reassigned and a closed
\* transport never listens again.
C12_LinearLifecycle ==
    /\ [][\/ StateRank' \in {StateRank, StateRank + 1, 5}
          \/ (Starting /\ Draining')]_vars
    /\ [](Stopped => {"init", "lifespan_startup", "stopped"} \subseteq visited)
    /\ [][servers.assigned =>
             /\ servers'.assigned
             /\ Len(servers'.list) = Len(servers.list)
             /\ \A i \in DOMAIN servers.list :
                   servers.list[i] = "closed" => servers'.list[i] = "closed"]_vars
    /\ [][pc = "bind" => pc' \in {"bind", "main_loop", "bind_failed", "crashed"}]_vars
    /\ [][(pc # "bind" /\ pc' = "bind") => ~servers.assigned]_vars

\* C12's case: a server that went through all five states.
C12_Witness ==
    /\ Stopped
    /\ started
    /\ {"init", "lifespan_startup", "bind", "main_loop", "wait_closed"} \subseteq visited
    /\ \A i \in DOMAIN servers.list : servers.list[i] = "closed"
    /\ Len(servers.list) > 0

\* A supervised task has executed a step (the accept loops, the tick loop,
\* the watcher).
TaskHasRun ==
    \/ \E i \in DOMAIN tasks.accept : tasks.accept[i] # "scheduled"
    \/ LastTick # Nil
    \/ tasks.watcher \notin {None, "waiting"}

\* C13: started is set once and never reset; on the step that sets it the
\* transports are bound and registered in servers and the watcher, the tick
\* task and one accept loop per transport are in the supervised set; and no
\* supervised task, an accept loop in particular, runs while started is
\* false.
C13_StartedAfterBinding ==
    /\ [][started => started']_vars
    /\ [][(~started /\ started') =>
             /\ ~servers.assigned /\ servers'.assigned
             /\ \A i \in DOMAIN servers'.list : servers'.list[i] = "listening"
             /\ tasks = NoTasks
             /\ tasks'.watcher = "waiting"
             /\ tasks'.tick = "running"
             /\ DOMAIN tasks'.accept = DOMAIN servers'.list
             /\ \A i \in DOMAIN tasks'.accept : tasks'.accept[i] = "scheduled"]_vars
    /\ [](~started => (~TaskHasRun /\ tasks = NoTasks /\ ~servers.assigned))

\* C13's case: started is set and an accept loop has begun to serve.
C13_Witness ==
    /\ started
    /\ Running
    /\ \E i \in DOMAIN tasks.accept : tasks.accept[i] = "serving"

\* Time elapsed at the tick about to run since last_notified.
Elapsed == CurrentTime(counter) - last_notified

\* C14 as stated: on any tick with a callback configured and at least
\* timeout_notify elapsed since last_notified, the callback is invoked and
\* last_notified becomes that tick's time; and the callback is never invoked
\* with less than timeout_notify elapsed.
C14_NotifiesOnAnyTick ==
    /\ [][(TickStep /\ config.callback_notify /\ Elapsed >= TimeoutNotify) =>
             /\ notified' = notified + 1
             /\ last_notified' = CurrentTime(counter)]_vars
    /\ [][notified' # notified => Elapsed >= TimeoutNotify]_vars

\* C14 amended: the callback is looked at on the ticks whose counter is a
\* multiple of 10 only; on such a tick, with a callback configured and more
\* than timeout_notify elapsed since last_notified, it is invoked once and
\* last_notified becomes that tick's time; on any other tick, and by any
\* other step, neither changes; it is never invoked with timeout_notify or
\* less elapsed.
C14_NotifiesOnRefreshTick ==
    /\ [][IF /\ TickStep
             /\ counter % TicksPerRefresh = 0
             /\ config.callback_notify
             /\ Elapsed > TimeoutNotify
          THEN /\ notified' = notified + 1
               /\ last_notified' = CurrentTime(counter)
          ELSE /\ notified' = notified
               /\ last_notified' = last_notified]_vars
    /\ [][notified' # notified =>
             (Elapsed > TimeoutNotify /\ last_notified' - last_notified > TimeoutNotify)]_vars

\* C14's case: a refresh tick that did not notify (tick 10, too soon after
\* the call on tick 0) and a later one that did (tick 20).
C14_Witness ==
    /\ config.callback_notify
    /\ LastTick >= 2 * TicksPerRefresh
    /\ notified = 2
    /\ last_notified = CurrentTime(2 * TicksPerRefresh)

\* C15: when the gather has ended on the watcher's Shutdown, every other
\* supervised task is cancelled or finished before the shutdown sequence
\* starts: while the server is Draining the tick task is not running, and
\* no step replaces default_headers, advances the tick counter or invokes
\* the notification callback.
C15_NoTaskStepWhileDraining ==
    /\ [](Draining =>
            /\ tasks.tick \in {"done", "cancelled"}
            /\ tasks.watcher \in {"raised", "cancelled"})
    /\ [][Draining => (~TickStep /\ UNCHANGED tickVars)]_vars

\* C16: once the server has been entered, through run() or through serve(),
\* exactly one shutdown source is active: with a multiprocess event supplied
\* to the constructor the trigger polls the event and no signal handler is
\* installed; with none supplied the trigger is the signal event.
C16_OneShutdownSource ==
    ~Idle =>
        /\ shutdown_event # None =>
              (shutdown_trigger = "mp" /\ signal_event = None)
        /\ shutdown_event = None =>
              (shutdown_trigger = "signal" /\ signal_event # None)

Drained == connections = {} /\ bg_tasks = {}

\* C17: the drain has no timeout.  Once the shutdown sequence has started,
\* serve returns (Stopped) if and only if force_exit becomes true or both the
\* connection set and the background-task set become empty: a sequence that
\* has ended with either condition met has ended in Stopped; Stopped is
\* reached with one of them met only; if the sets drain for good, or
\* force_exit is set, Stopped follows; and while a connection stays and
\* force_exit stays false, Stopped is never reached.
C17_DrainEndsIffDrainedOrForced ==
    /\ []((("shutdown" \in visited) /\ Terminal /\ (force_exit \/ Drained))
            => Stopped)
    /\ [](Stopped => (force_exit \/ Drained))
    /\ <>[]Drained => (Draining ~> Stopped)
    /\ (Draining /\ force_exit) ~> Stopped
    /\ []((Draining /\ [](connections # {} /\ ~force_exit)) => []~Stopped)

\* C18: once the shutdown sequence has closed the listening transports, no
\* handle is added to server_state.connections: from the close on, and all
\* the more once wait_closed has been awaited, the set only shrinks, and no
\* transport listens.
C18_NoConnectionAfterClose ==
    /\ [][("close" \in Range(steps)) => connections' \subseteq connections]_vars
    /\ [](("close" \in Range(steps)) => ~Listening)

\* C18's case: the transports were closed with a connection open, and the
\* connection has since gone.
C18_Witness ==
    /\ "wait_closed" \in Range(steps)
    /\ total_requests > 0
    /\ asked = {}
    /\ connections = {}
    /\ steps[Len(steps)] \in {"wait_connections", "wait_tasks"}

\* C19: on the step by which the shutdown sequence invokes the lifespan
\* shutdown handshake force_exit is false and both server_state.connections
\* and server_state.tasks are empty; they are still empty while the handshake
\* is awaited and when serve has returned without force_exit.
C19_DrainedAtHandshake ==
    /\ [][(Draining /\ lifespan'.shutdowns # lifespan.shutdowns) =>
             /\ ~force_exit
             /\ Drained
             /\ Drained']_vars
    /\ [](pc = "lifespan_shutdown" => Drained)
    /\ []((Stopped /\ ~force_exit) => (Drained /\ lifespan.shutdowns = 1))

\* C19's case: serve returned after the handshake, having waited for a
\* connection and for a background task to go.
C19_Witness ==
    /\ Stopped
    /\ ~force_exit
    /\ lifespan.shutdowns = 1
    /\ "wait_connections" \in Range(steps)
    /\ "wait_tasks" \in Range(steps)
    /\ connections = {}

\* C20: a signal delivered after the handlers are installed and before the
\* main loop waits is not lost.  The handler does nothing but set the signal
\* event; the event, once set, stays set, whatever further signals arrive;
\* and a server that reaches Running after such a signal enters the shutdown
\* sequence, with no further signal needed.
C20_EarlySignalNotLost ==
    /\ [][signals' > signals =>
             /\ signal_event' = "set"
             /\ UNCHANGED << pc, config, shutdown_event, shutdown_trigger,
                             serverVars, force_exit, stateVars, tickVars,
                             lifespan, histVars >>]_vars
    /\ [][signal_event = "set" => signal_event' = "set"]_vars
    /\ []("early_signal" \in visited => signal_event = "set")
    /\ ("early_signal" \in visited /\ Running) ~> Draining

\* C20's case: one signal, delivered during startup; the server went on to
\* Running, the watcher raised, and serve is in the shutdown sequence.
C20_Witness ==
    /\ Draining
    /\ "early_signal" \in visited
    /\ signals = 1
    /\ started
    /\ tasks.watcher = "raised"

====
